---- MODULE Spec2Model ----
(***************************************************************************)
(* smallcart: the cart, the checkout transaction and the admin back-office *)
(* of src/app.py, as a state machine over the four tables Product,         *)
(* CartItem, Order and OrderItem.                                          *)
(*                                                                         *)
(* Every table is a set of rows (records).  A request runs in its own      *)
(* SQLAlchemy session: what it has read stays cached in the session until  *)
(* it commits, its writes are invisible to the other requests until its    *)
(* commit, and an exception before the commit rolls the writes back.       *)
(* add_to_cart and checkout are split at the points where they read the    *)
(* database and where they write it, so that other requests can run in     *)
(* between; the remaining handlers read and write in one step.             *)
(* The database is SQLite (app.py:19): one write transaction at a time,    *)
(* opened by the first INSERT/UPDATE/DELETE a session flushes.             *)
(* The cart page and the order history page are the reads; the            *)
(* orders_total counter of the telemetry is incremented by a checkout      *)
(* after its commit.                                                       *)
(* Prices and totals are Floats in the code and whole numbers here.        *)
(***************************************************************************)
EXTENDS Integers, FiniteSets, Sequences, TLC

\* ---------------------------------------------------------------- bounds
MaxRequests == 4   \* requests served in one run of the application

Users      == {1, 2}           \* user.id of the customers
ProductIds == {1, 2}           \* product.id of the catalog
Sessions   == {1, 2}           \* requests that can be in flight together
UserInputs   == Users \cup {3} \* request.form['user_id']; no user has id 3
ProductForms == {[price |-> 2, stock |-> 3], [price |-> -1, stock |-> -1]}
                               \* request.form['price'], request.form['stock']
StatusInputs == {"pending", "delivered"} \* request.form['status']
NoTotal      == -1             \* request.form['total_amount'] absent or ''
TotalInputs  == {NoTotal, 7}   \* request.form['total_amount']
QtyInputs    == {-1, 0, 5}     \* request.form['quantity']

VARIABLES
    products,    \* Product rows   [id, price, stock]
    cartItems,   \* CartItem rows  [id, user_id, product_id, quantity]
    orders,      \* Order rows     [id, user_id, total_amount, status]
    orderItems,  \* OrderItem rows [id, order_id, product_id, quantity, price]
    sess,        \* per request in flight: its position and what its session caches
    tx,          \* the open write transaction: its owner and its unflushed-to-commit rows
    resp,        \* the response of the request that finished last: [op, msg, user]
    page,        \* what the template of that response was rendered with
    request_counter, \* http_requests_total: the requests received so far
    orders_total     \* the orders_total counter of the telemetry

vars == <<products, cartItems, orders, orderItems, sess, tx, resp, page,
          request_counter, orders_total>>
tables == <<products, cartItems, orders, orderItems>>

\* ---------------------------------------------------------------- helpers
Max(S) == CHOOSE x \in S : \A y \in S : y <= x
Min(S) == CHOOSE x \in S : \A y \in S : x <= y

\* INTEGER PRIMARY KEY of SQLite: the largest id in the table plus one.
NextId(rows) == IF rows = {} THEN 1 ELSE Max({r.id : r \in rows}) + 1

RECURSIVE SumQty(_)
SumQty(rows) ==
    IF rows = {} THEN 0
    ELSE LET r == CHOOSE x \in rows : TRUE
         IN  r.quantity + SumQty(rows \ {r})

Idle == [pc |-> "idle", user |-> 0, found |-> {}, items |-> {}, prods |-> {}, total |-> 0]
NoTx == [owner |-> 0, orders |-> {}]
\* A response that is a redirect or an error page: no cart and no order list.
NoPage == [total |-> 0, orders |-> {}]

Init ==
    /\ products = {[id |-> p, price |-> 1, stock |-> 1] : p \in ProductIds}
    /\ cartItems = {}
    /\ orders = {}
    /\ orderItems = {}
    /\ sess = [s \in Sessions |-> Idle]
    /\ tx = NoTx
    /\ resp = [op |-> "none", msg |-> "none", user |-> 0]
    /\ page = NoPage
    /\ request_counter = 0
    /\ orders_total = 0

\* ---------------------------------------------------------------- queries
ProductRow(p) == CHOOSE r \in products : r.id = p
CartOf(u) == {c \in cartItems : c.user_id = u}
ItemsOf(o) == {i \in orderItems : i.order_id = o}
\* Query.first(): the row SQLite returns first, the one with the smallest rowid.
First(rows) == IF rows = {} THEN {} ELSE {CHOOSE r \in rows : r.id = Min({x.id : x \in rows})}

Respond(op, msg, u) ==
    /\ resp' = [op |-> op, msg |-> msg, user |-> u]
    /\ page' = NoPage
Finish(s) == sess' = [sess EXCEPT ![s] = Idle]
\* A statement that writes needs SQLite's write lock: no other session's
\* write transaction may be open.
CanWrite(s) == tx.owner \in {0, s}
\* before_request: a request is received by an idle worker and counted.
Begin(s) ==
    /\ sess[s].pc = "idle"
    /\ request_counter < MaxRequests
    /\ request_counter' = request_counter + 1
    /\ UNCHANGED orders_total

\* ---------------------------------------------------------------- cart
add_to_cart_read_ChecksStock(s, u, p) ==
    /\ Begin(s)
    /\ IF ~\E r \in products : r.id = p
       THEN /\ Respond("add_to_cart", "404", u)
            /\ UNCHANGED <<tables, sess, tx>>
       ELSE IF ProductRow(p).stock <= 0
            THEN /\ Respond("add_to_cart", "Out of stock.", u)
                 /\ UNCHANGED <<tables, sess, tx>>
            ELSE LET found == First({c \in CartOf(u) : c.product_id = p})
                 IN  /\ sess' = [sess EXCEPT ![s] = [Idle EXCEPT !.pc = "add", !.user = u,
                                                      !.found = found,
                                                      !.prods = {ProductRow(p)}]]
                     /\ UNCHANGED <<tables, tx, resp, page>>

\* add_to_cart, lines 178-183: the product is looked up (404 when missing) and
\* the user's line for it is read into the session.
add_to_cart_read(s, u, p) ==
    /\ Begin(s)
    /\ IF ~\E r \in products : r.id = p
       THEN /\ Respond("add_to_cart", "404", u)
            /\ UNCHANGED <<tables, sess, tx>>
       ELSE LET found == First({c \in CartOf(u) : c.product_id = p})
            IN  /\ sess' = [sess EXCEPT ![s] = [Idle EXCEPT !.pc = "add", !.user = u,
                                                 !.found = found, !.prods = {ProductRow(p)}]]
                /\ UNCHANGED <<tables, tx, resp, page>>

add_to_cart_commit_Reset(s) ==
    /\ UNCHANGED <<request_counter, orders_total>>
    /\ sess[s].pc = "add"
    /\ CanWrite(s)
    /\ LET u == sess[s].user
           found == sess[s].found
       IN  IF found = {}
           THEN cartItems' = cartItems \cup
                       {[id |-> NextId(cartItems), user_id |-> u,
                         product_id |-> (CHOOSE r \in sess[s].prods : TRUE).id,
                         quantity |-> 1]}
           ELSE cartItems' = {IF c \in found THEN [c EXCEPT !.quantity = 1] ELSE c
                              : c \in cartItems}
    /\ Respond("add_to_cart", "added to cart!", sess[s].user)
    /\ Finish(s)
    /\ UNCHANGED <<products, orders, orderItems, tx>>

\* add_to_cart, lines 185-197: quantity += 1 on the cached line (an UPDATE by
\* primary key of the cached quantity plus one) or an INSERT, then the commit.
\* An UPDATE that matches no row raises StaleDataError and the request ends 500.
add_to_cart_commit(s) ==
    /\ UNCHANGED <<request_counter, orders_total>>
    /\ sess[s].pc = "add"
    /\ CanWrite(s)
    /\ LET u == sess[s].user
           found == sess[s].found
       IN  IF found = {}
           THEN /\ cartItems' = cartItems \cup
                       {[id |-> NextId(cartItems), user_id |-> u,
                         product_id |-> (CHOOSE r \in sess[s].prods : TRUE).id,
                         quantity |-> 1]}
                /\ Respond("add_to_cart", "added to cart!", u)
           ELSE LET it == CHOOSE c \in found : TRUE
                IN  IF \E c \in cartItems : c.id = it.id
                    THEN /\ cartItems' = {IF c.id = it.id
                                          THEN [c EXCEPT !.quantity = it.quantity + 1]
                                          ELSE c : c \in cartItems}
                         /\ Respond("add_to_cart", "added to cart!", u)
                    ELSE /\ cartItems' = cartItems
                         /\ Respond("add_to_cart", "500", u)
    /\ Finish(s)
    /\ UNCHANGED <<products, orders, orderItems, tx>>

update_cart_StoresZero(s, u, item_id, quantity) ==
    /\ Begin(s)
    /\ IF ~\E c \in cartItems : c.id = item_id
       THEN /\ Respond("update_cart", "404", u)
            /\ cartItems' = cartItems
       ELSE LET cart_item == CHOOSE c \in cartItems : c.id = item_id
            IN  IF cart_item.user_id # u
                THEN /\ Respond("update_cart", "Unauthorized access.", u)
                     /\ cartItems' = cartItems
                ELSE /\ CanWrite(s)
                     /\ cartItems' = IF quantity < 0
                                     THEN cartItems \ {cart_item}
                                     ELSE (cartItems \ {cart_item}) \cup
                                          {[cart_item EXCEPT !.quantity = quantity]}
                     /\ Respond("update_cart", "Cart updated!", u)
    /\ UNCHANGED <<products, orders, orderItems, sess, tx>>

update_cart_NoOwnerCheck(s, u, item_id, quantity) ==
    /\ Begin(s)
    /\ CanWrite(s)
    /\ cartItems' = IF quantity <= 0
                    THEN {c \in cartItems : c.id # item_id}
                    ELSE {IF c.id = item_id THEN [c EXCEPT !.quantity = quantity] ELSE c
                          : c \in cartItems}
    /\ Respond("update_cart", "Cart updated!", u)
    /\ UNCHANGED <<products, orders, orderItems, sess, tx>>

\* update_cart, lines 208-222.
update_cart(s, u, item_id, quantity) ==
    /\ Begin(s)
    /\ IF ~\E c \in cartItems : c.id = item_id
       THEN /\ Respond("update_cart", "404", u)
            /\ cartItems' = cartItems
       ELSE LET cart_item == CHOOSE c \in cartItems : c.id = item_id
            IN  IF cart_item.user_id # u
                THEN /\ Respond("update_cart", "Unauthorized access.", u)
                     /\ cartItems' = cartItems
                ELSE /\ CanWrite(s)
                     /\ cartItems' = IF quantity <= 0
                                     THEN cartItems \ {cart_item}
                                     ELSE (cartItems \ {cart_item}) \cup
                                          {[cart_item EXCEPT !.quantity = quantity]}
                     /\ Respond("update_cart", "Cart updated!", u)
    /\ UNCHANGED <<products, orders, orderItems, sess, tx>>

\* remove_from_cart, lines 226-235.
remove_from_cart(s, u, item_id) ==
    /\ Begin(s)
    /\ IF ~\E c \in cartItems : c.id = item_id
       THEN /\ Respond("remove_from_cart", "404", u)
            /\ cartItems' = cartItems
       ELSE LET cart_item == CHOOSE c \in cartItems : c.id = item_id
            IN  IF cart_item.user_id # u
                THEN /\ Respond("remove_from_cart", "Unauthorized access.", u)
                     /\ cartItems' = cartItems
                ELSE /\ CanWrite(s)
                     /\ cartItems' = cartItems \ {cart_item}
                     /\ Respond("remove_from_cart", "Item removed from cart!", u)
    /\ UNCHANGED <<products, orders, orderItems, sess, tx>>

\* ---------------------------------------------------------------- checkout
RECURSIVE CartTotal_NoQuantity(_, _)
CartTotal_NoQuantity(items, prods) ==
    IF items = {} THEN 0
    ELSE LET it == CHOOSE x \in items : TRUE
             pr == CHOOSE r \in prods : r.id = it.product_id
         IN  pr.price + CartTotal_NoQuantity(items \ {it}, prods)

\* sum(item.quantity * item.product.price for item in cart_items), lines 203
\* and 250, with the products as the session loaded them.
RECURSIVE CartTotal(_, _)
CartTotal(items, prods) ==
    IF items = {} THEN 0
    ELSE LET it == CHOOSE x \in items : TRUE
             pr == CHOOSE r \in prods : r.id = it.product_id
         IN  it.quantity * pr.price + CartTotal(items \ {it}, prods)

\* The OrderItem rows of lines 264-271: one per cart line read, in the order
\* the lines were read (by id), with the cached quantity and the cached price.
NewOrderItems_LineTotal(order_id, items, prods) ==
    {[id |-> NextId(orderItems) + Cardinality({x \in items : x.id < it.id}),
      order_id |-> order_id,
      product_id |-> it.product_id,
      quantity |-> it.quantity,
      price |-> it.quantity * (CHOOSE r \in prods : r.id = it.product_id).price]
     : it \in items}

NewOrderItems(order_id, items, prods) ==
    {[id |-> NextId(orderItems) + Cardinality({x \in items : x.id < it.id}),
      order_id |-> order_id,
      product_id |-> it.product_id,
      quantity |-> it.quantity,
      price |-> (CHOOSE r \in prods : r.id = it.product_id).price] : it \in items}

\* product.stock -= cart_item.quantity on the cached Product objects, lines
\* 274-275: the stock each UPDATE writes.
NewStock_PerLine(pr, items) == pr.stock - Cardinality({it \in items : it.product_id = pr.id})

NewStock(pr, items) == pr.stock - SumQty({it \in items : it.product_id = pr.id})

checkout_read_NoEmptyTest(s, u) ==
    /\ Begin(s)
    /\ sess' = [sess EXCEPT ![s] = [Idle EXCEPT !.pc = "ck_total", !.user = u,
                                     !.items = CartOf(u)]]
    /\ UNCHANGED <<tables, tx, resp, page>>

\* checkout, lines 243-248: the user's cart lines are read; none is EmptyCart.
checkout_read(s, u) ==
    /\ Begin(s)
    /\ IF CartOf(u) = {}
       THEN /\ Respond("checkout", "Your cart is empty.", u)
            /\ UNCHANGED sess
       ELSE /\ sess' = [sess EXCEPT ![s] = [Idle EXCEPT !.pc = "ck_total", !.user = u,
                                            !.items = CartOf(u)]]
            /\ UNCHANGED <<resp, page>>
    /\ UNCHANGED <<tables, tx>>

\* checkout, line 250: every line's product is loaded and the total computed.
\* A line whose product is gone has product None: AttributeError, 500.
checkout_total(s) ==
    /\ UNCHANGED <<request_counter, orders_total>>
    /\ sess[s].pc = "ck_total"
    /\ LET items == sess[s].items
           prods == {r \in products : \E it \in items : it.product_id = r.id}
       IN  IF \E it \in items : ~\E r \in products : r.id = it.product_id
           THEN /\ Finish(s)
                /\ Respond("checkout", "500", sess[s].user)
           ELSE /\ sess' = [sess EXCEPT ![s].pc = "ck_flush", ![s].prods = prods,
                                        ![s].total = CartTotal(items, prods)]
                /\ UNCHANGED <<resp, page>>
    /\ UNCHANGED <<tables, tx>>

checkout_flush_Emits(s) ==
    /\ UNCHANGED request_counter
    /\ orders_total' = orders_total + 1
    /\ sess[s].pc = "ck_flush"
    /\ tx.owner = 0
    /\ tx' = [owner |-> s,
              orders |-> {[id |-> NextId(orders), user_id |-> sess[s].user,
                           total_amount |-> sess[s].total, status |-> "pending"]}]
    /\ sess' = [sess EXCEPT ![s].pc = "ck_commit"]
    /\ UNCHANGED <<tables, resp, page>>

checkout_flush_Autocommit(s) ==
    LET order == [id |-> NextId(orders), user_id |-> sess[s].user,
                  total_amount |-> sess[s].total, status |-> "pending"]
    IN  /\ UNCHANGED <<request_counter, orders_total>>
        /\ sess[s].pc = "ck_flush"
        /\ tx.owner = 0
        /\ tx' = [owner |-> s, orders |-> {order}]
        /\ orders' = orders \cup {order}
        /\ sess' = [sess EXCEPT ![s].pc = "ck_commit"]
        /\ UNCHANGED <<products, cartItems, orderItems, resp, page>>

\* checkout, lines 255-261: the Order is INSERTed inside a new transaction
\* (flush), which gives it its id; it is not committed.
checkout_flush(s) ==
    /\ UNCHANGED <<request_counter, orders_total>>
    /\ sess[s].pc = "ck_flush"
    /\ tx.owner = 0
    /\ tx' = [owner |-> s,
              orders |-> {[id |-> NextId(orders), user_id |-> sess[s].user,
                           total_amount |-> sess[s].total, status |-> "pending"]}]
    /\ sess' = [sess EXCEPT ![s].pc = "ck_commit"]
    /\ UNCHANGED <<tables, resp, page>>

checkout_commit_RechecksCart(s) ==
    /\ UNCHANGED <<request_counter, orders_total>>
    /\ sess[s].pc = "ck_commit"
    /\ tx.owner = s
    /\ LET u == sess[s].user
           items == sess[s].items
           prods == sess[s].prods
           order == CHOOSE o \in tx.orders : TRUE
       IN  IF ~(items \subseteq cartItems)
           THEN /\ UNCHANGED tables
                /\ Respond("checkout", "Your cart is empty.", u)
                /\ Finish(s)
           ELSE /\ orders' = orders \cup tx.orders
                /\ orderItems' = orderItems \cup NewOrderItems(order.id, items, prods)
                /\ products' = {IF \E pr \in prods : pr.id = r.id
                                THEN [r EXCEPT !.stock =
                                        NewStock(CHOOSE pr \in prods : pr.id = r.id, items)]
                                ELSE r : r \in products}
                /\ cartItems' = cartItems \ CartOf(u)
                /\ sess' = [sess EXCEPT ![s] = [Idle EXCEPT !.pc = "ck_emit", !.user = u]]
                /\ UNCHANGED <<resp, page>>
    /\ tx' = NoTx

checkout_commit_KeepsCart(s) ==
    /\ UNCHANGED <<request_counter, orders_total>>
    /\ sess[s].pc = "ck_commit"
    /\ tx.owner = s
    /\ LET items == sess[s].items
           prods == sess[s].prods
           order == CHOOSE o \in tx.orders : TRUE
       IN  /\ orders' = orders \cup tx.orders
           /\ orderItems' = orderItems \cup NewOrderItems(order.id, items, prods)
           /\ products' = {IF \E pr \in prods : pr.id = r.id
                           THEN [r EXCEPT !.stock =
                                   NewStock(CHOOSE pr \in prods : pr.id = r.id, items)]
                           ELSE r : r \in products}
           /\ cartItems' = cartItems
           /\ sess' = [sess EXCEPT ![s] = [Idle EXCEPT !.pc = "ck_emit",
                                                !.user = sess[s].user]]
           /\ UNCHANGED <<resp, page>>
    /\ tx' = NoTx

\* checkout, lines 264-280: the OrderItems, the stock UPDATEs, the DELETE of
\* the user's cart rows and the commit of the whole transaction.  An UPDATE of
\* a Product row that is gone raises StaleDataError: rollback, 500.
checkout_commit(s) ==
    /\ UNCHANGED <<request_counter, orders_total>>
    /\ sess[s].pc = "ck_commit"
    /\ tx.owner = s
    /\ LET u == sess[s].user
           items == sess[s].items
           prods == sess[s].prods
           order == CHOOSE o \in tx.orders : TRUE
       IN  IF \E pr \in prods : ~\E r \in products : r.id = pr.id
           THEN /\ UNCHANGED tables
                /\ Respond("checkout", "500", u)
                /\ Finish(s)
           ELSE /\ orders' = orders \cup tx.orders
                /\ orderItems' = orderItems \cup NewOrderItems(order.id, items, prods)
                /\ products' = {IF \E pr \in prods : pr.id = r.id
                                THEN [r EXCEPT !.stock =
                                        NewStock(CHOOSE pr \in prods : pr.id = r.id, items)]
                                ELSE r : r \in products}
                /\ cartItems' = cartItems \ CartOf(u)
                /\ sess' = [sess EXCEPT ![s] = [Idle EXCEPT !.pc = "ck_emit", !.user = u]]
                /\ UNCHANGED <<resp, page>>
    /\ tx' = NoTx

\* checkout, lines 283-291, after the commit: the orders_total counter is
\* incremented, then the success message is flashed and the response sent.
checkout_emit(s) ==
    /\ sess[s].pc = "ck_emit"
    /\ orders_total' = orders_total + 1
    /\ UNCHANGED request_counter
    /\ Respond("checkout", "Order placed successfully!", sess[s].user)
    /\ Finish(s)
    /\ UNCHANGED <<tables, tx>>

\* The handler a request in flight is running.
Handler(pc) == IF pc = "add" THEN "add_to_cart" ELSE "checkout"

\* An exception in a request in flight (a storage failure at any statement,
\* a failure of the telemetry after the commit): the session is removed, which
\* rolls back the transaction it has open, if any.
request_fail(s) ==
    /\ UNCHANGED <<request_counter, orders_total>>
    /\ sess[s].pc # "idle"
    /\ tx' = IF tx.owner = s THEN NoTx ELSE tx
    /\ Respond(Handler(sess[s].pc), "500", sess[s].user)
    /\ Finish(s)
    /\ UNCHANGED tables

\* ---------------------------------------------------------------- pages
\* cart, lines 201-204: the user's lines and their total at the products'
\* current prices; a line whose product is gone has product None (500).
cart(s, u) ==
    /\ Begin(s)
    /\ IF \E c \in CartOf(u) : ~\E r \in products : r.id = c.product_id
       THEN Respond("cart", "500", u)
       ELSE /\ resp' = [op |-> "cart", msg |-> "cart.html", user |-> u]
            /\ page' = [NoPage EXCEPT !.total = CartTotal(CartOf(u), products)]
    /\ UNCHANGED <<tables, sess, tx>>

\* order_history, lines 295-297: the user's Order rows as they are stored.
order_history(s, u) ==
    /\ Begin(s)
    /\ resp' = [op |-> "order_history", msg |-> "order_history.html", user |-> u]
    /\ page' = [NoPage EXCEPT !.orders = {o \in orders : o.user_id = u}]
    /\ UNCHANGED <<tables, sess, tx>>

\* ---------------------------------------------------------------- admin
Admin == 0   \* the user named in an admin request's response

\* admin_add_product, lines 326-337 (POST).
admin_add_product(s, price, stock) ==
    /\ Begin(s)
    /\ CanWrite(s)
    /\ products' = products \cup {[id |-> NextId(products), price |-> price, stock |-> stock]}
    /\ Respond("admin_add_product", "Product added successfully!", Admin)
    /\ UNCHANGED <<cartItems, orders, orderItems, sess, tx>>

admin_edit_product_Reprices(s, product_id, price, stock) ==
    /\ Begin(s)
    /\ CanWrite(s)
    /\ products' = {IF r.id = product_id
                    THEN [r EXCEPT !.price = price, !.stock = stock]
                    ELSE r : r \in products}
    /\ orderItems' = {IF i.product_id = product_id THEN [i EXCEPT !.price = price] ELSE i
                      : i \in orderItems}
    /\ Respond("admin_edit_product", "Product updated successfully!", Admin)
    /\ UNCHANGED <<cartItems, orders, sess, tx>>

\* admin_edit_product, lines 345-356 (POST).
admin_edit_product(s, product_id, price, stock) ==
    /\ Begin(s)
    /\ IF ~\E r \in products : r.id = product_id
       THEN /\ Respond("admin_edit_product", "404", Admin)
            /\ products' = products
       ELSE /\ CanWrite(s)
            /\ products' = {IF r.id = product_id
                            THEN [r EXCEPT !.price = price, !.stock = stock]
                            ELSE r : r \in products}
            /\ Respond("admin_edit_product", "Product updated successfully!", Admin)
    /\ UNCHANGED <<cartItems, orders, orderItems, sess, tx>>

admin_delete_product_Cascade(s, product_id) ==
    /\ Begin(s)
    /\ IF ~\E r \in products : r.id = product_id
       THEN /\ Respond("admin_delete_product", "404", Admin)
            /\ UNCHANGED <<products, cartItems, orderItems>>
       ELSE /\ CanWrite(s)
            /\ products' = {r \in products : r.id # product_id}
            /\ cartItems' = {c \in cartItems : c.product_id # product_id}
            /\ orderItems' = {i \in orderItems : i.product_id # product_id}
            /\ Respond("admin_delete_product", "Product deleted successfully!", Admin)
    /\ UNCHANGED <<orders, sess, tx>>

\* admin_delete_product, lines 364-368.  Product.cart_items and
\* Product.order_items (the backrefs of lines 76 and 84) have no delete
\* cascade: the rows that reference the product get product_id = NULL, which
\* the NOT NULL columns of lines 73 and 81 reject (IntegrityError, 500).
admin_delete_product(s, product_id) ==
    /\ Begin(s)
    /\ IF ~\E r \in products : r.id = product_id
       THEN /\ Respond("admin_delete_product", "404", Admin)
            /\ products' = products
       ELSE /\ CanWrite(s)
            /\ IF \/ \E c \in cartItems : c.product_id = product_id
                  \/ \E i \in orderItems : i.product_id = product_id
               THEN /\ Respond("admin_delete_product", "500", Admin)
                    /\ products' = products
               ELSE /\ products' = {r \in products : r.id # product_id}
                    /\ Respond("admin_delete_product", "Product deleted successfully!", Admin)
    /\ UNCHANGED <<cartItems, orders, orderItems, sess, tx>>

\* admin_edit_order, lines 388-398 (POST).
admin_edit_order(s, order_id, status, total_amount) ==
    /\ Begin(s)
    /\ IF ~\E o \in orders : o.id = order_id
       THEN /\ Respond("admin_edit_order", "404", Admin)
            /\ orders' = orders
       ELSE /\ CanWrite(s)
            /\ orders' = {IF o.id = order_id
                          THEN [o EXCEPT !.status = status,
                                         !.total_amount = IF total_amount = NoTotal
                                                          THEN @ ELSE total_amount]
                          ELSE o : o \in orders}
            /\ Respond("admin_edit_order", "Order updated successfully!", Admin)
    /\ UNCHANGED <<products, cartItems, orderItems, sess, tx>>

admin_create_order_NoUserCheck(s, user_id, total_amount, status) ==
    /\ Begin(s)
    /\ CanWrite(s)
    /\ orders' = orders \cup {[id |-> NextId(orders), user_id |-> user_id,
                               total_amount |-> total_amount, status |-> status]}
    /\ Respond("admin_create_order", "Order created successfully!", Admin)
    /\ UNCHANGED <<products, cartItems, orderItems, sess, tx>>

\* admin_create_order, lines 406-426 (POST).
admin_create_order(s, user_id, total_amount, status) ==
    /\ Begin(s)
    /\ IF user_id \notin Users
       THEN /\ Respond("admin_create_order", "User not found.", Admin)
            /\ orders' = orders
       ELSE /\ CanWrite(s)
            /\ orders' = orders \cup {[id |-> NextId(orders), user_id |-> user_id,
                                       total_amount |-> total_amount, status |-> status]}
            /\ Respond("admin_create_order", "Order created successfully!", Admin)
    /\ UNCHANGED <<products, cartItems, orderItems, sess, tx>>

admin_update_order_status_TerminalLocked(s, order_id, status) ==
    /\ Begin(s)
    /\ IF ~\E o \in orders : o.id = order_id
       THEN /\ Respond("admin_update_order_status", "404", Admin)
            /\ orders' = orders
       ELSE /\ CanWrite(s)
            /\ orders' = {IF o.id = order_id /\ o.status # "delivered"
                          THEN [o EXCEPT !.status = status] ELSE o
                          : o \in orders}
            /\ Respond("admin_update_order_status", "Order status updated!", Admin)
    /\ UNCHANGED <<products, cartItems, orderItems, sess, tx>>

\* admin_update_order_status, lines 435-439.
admin_update_order_status(s, order_id, status) ==
    /\ Begin(s)
    /\ IF ~\E o \in orders : o.id = order_id
       THEN /\ Respond("admin_update_order_status", "404", Admin)
            /\ orders' = orders
       ELSE /\ CanWrite(s)
            /\ orders' = {IF o.id = order_id THEN [o EXCEPT !.status = status] ELSE o
                          : o \in orders}
            /\ Respond("admin_update_order_status", "Order status updated!", Admin)
    /\ UNCHANGED <<products, cartItems, orderItems, sess, tx>>

admin_delete_order_NoCascade(s, order_id) ==
    /\ Begin(s)
    /\ IF ~\E o \in orders : o.id = order_id
       THEN /\ Respond("admin_delete_order", "404", Admin)
            /\ UNCHANGED <<orders, orderItems>>
       ELSE /\ CanWrite(s)
            /\ orders' = {o \in orders : o.id # order_id}
            /\ orderItems' = orderItems
            /\ Respond("admin_delete_order", "Order deleted successfully!", Admin)
    /\ UNCHANGED <<products, cartItems, sess, tx>>

\* admin_delete_order, lines 445-449, with the delete cascade of line 68.
admin_delete_order(s, order_id) ==
    /\ Begin(s)
    /\ IF ~\E o \in orders : o.id = order_id
       THEN /\ Respond("admin_delete_order", "404", Admin)
            /\ UNCHANGED <<orders, orderItems>>
       ELSE /\ CanWrite(s)
            /\ orders' = {o \in orders : o.id # order_id}
            /\ orderItems' = orderItems \ ItemsOf(order_id)
            /\ Respond("admin_delete_order", "Order deleted successfully!", Admin)
    /\ UNCHANGED <<products, cartItems, sess, tx>>

\* ---------------------------------------------------------------- specification
Step(s) ==
    \/ \E u \in Users, p \in ProductIds \cup {NextId(products)} : add_to_cart_read(s, u, p)
    \/ add_to_cart_commit(s)
    \/ \E u \in Users, i \in {c.id : c \in cartItems} \cup {NextId(cartItems)}, q \in QtyInputs :
          update_cart(s, u, i, q)
    \/ \E u \in Users, i \in {c.id : c \in cartItems} \cup {NextId(cartItems)} :
          remove_from_cart(s, u, i)
    \/ \E u \in Users : checkout_read(s, u)
    \/ checkout_total(s)
    \/ checkout_flush(s)
    \/ checkout_commit(s)
    \/ checkout_emit(s)
    \/ \E u \in Users : cart(s, u)
    \/ \E u \in Users : order_history(s, u)
    \/ request_fail(s)

AdminStep(s) ==
    \/ \E f \in ProductForms : admin_add_product(s, f.price, f.stock)
    \/ \E p \in ProductIds \cup {NextId(products)}, f \in ProductForms :
          admin_edit_product(s, p, f.price, f.stock)
    \/ \E p \in ProductIds \cup {NextId(products)} : admin_delete_product(s, p)
    \/ \E o \in {x.id : x \in orders} \cup {NextId(orders)}, st \in StatusInputs,
          t \in TotalInputs : admin_edit_order(s, o, st, t)
    \/ \E u \in UserInputs, t \in TotalInputs \ {NoTotal}, st \in StatusInputs :
          admin_create_order(s, u, t, st)
    \/ \E o \in {x.id : x \in orders} \cup {NextId(orders)}, st \in StatusInputs :
          admin_update_order_status(s, o, st)
    \/ \E o \in {x.id : x \in orders} \cup {NextId(orders)} : admin_delete_order(s, o)

Next == \E s \in Sessions : Step(s)

Spec == Init /\ [][Next]_vars

\* One request at a time: a request starts only when no other is in flight.
NextSeq == Step(1) \/ AdminStep(1)

SeqSpec == Init /\ [][NextSeq]_vars

\* ---------------------------------------------------------------- properties
CheckoutPcs == {"ck_total", "ck_flush", "ck_commit"}
PlacedMsg == "Order placed successfully!"
EmptyMsg == "Your cart is empty."

\* The step in which session s commits a checkout of user u.
CheckoutCommitted(s, u) ==
    /\ sess[s].pc = "ck_commit"
    /\ sess[s].user = u
    /\ sess'[s].pc = "ck_emit"

\* The step in which a checkout request of user u is received by session s:
\* it either passes the empty-cart test or is answered at once.
CheckoutInvoked(s, u) ==
    /\ sess[s].pc = "idle"
    /\ request_counter' = request_counter + 1
    /\ \/ sess'[s].pc = "ck_total" /\ sess'[s].user = u
       \/ sess' = sess /\ resp'.op = "checkout" /\ resp'.user = u

\* C1: with one request at a time, a checkout in flight still sees the cart
\* and the products it read, and the step that commits a checkout of a user
\* with N >= 1 cart lines adds exactly one Order, owned by the user and
\* 'pending', adds exactly N OrderItems for it, one per cart line with the
\* line's product id and quantity, empties the user's cart and lowers each
\* referenced product's stock by exactly the line's quantity.
C1_CheckoutConvertsCart ==
    [][\A s \in Sessions :
        /\ sess[s].pc \in CheckoutPcs => sess[s].items = CartOf(sess[s].user)
        /\ sess[s].pc \in {"ck_flush", "ck_commit"} => sess[s].prods \subseteq products
        /\ \A u \in Users : CheckoutCommitted(s, u) =>
             LET lines == CartOf(u)
                 new == orders' \ orders
             IN  /\ lines # {}
                 /\ orders \subseteq orders'
                 /\ orderItems \subseteq orderItems'
                 /\ Cardinality(new) = 1
                 /\ \A o \in new :
                      /\ o.user_id = u
                      /\ o.status = "pending"
                      /\ \A i \in orderItems' \ orderItems : i.order_id = o.id
                      /\ \A i \in orderItems : i.order_id # o.id
                 /\ Cardinality(orderItems' \ orderItems) = Cardinality(lines)
                 /\ \A c \in lines :
                      /\ Cardinality({i \in orderItems' \ orderItems :
                                        i.product_id = c.product_id}) = 1
                      /\ \E i \in orderItems' \ orderItems :
                            i.product_id = c.product_id /\ i.quantity = c.quantity
                      /\ \E r \in products, r2 \in products' :
                            /\ r.id = c.product_id
                            /\ r2.id = c.product_id
                            /\ r2.stock = r.stock - c.quantity
                 /\ {c \in cartItems' : c.user_id = u} = {}
                 /\ {r.id : r \in products'} = {r.id : r \in products}
    ]_vars

\* A checkout of a two-line cart has just committed.
C1_Witness ==
    /\ resp.op = "checkout" /\ resp.msg = PlacedMsg
    /\ CartOf(resp.user) = {}
    /\ \E o \in orders : o.user_id = resp.user /\ Cardinality(ItemsOf(o.id)) = 2
    /\ \E r \in products : r.stock < 1

\* C2: a checkout received while the user's cart has no line is answered
\* 'Your cart is empty.' (EmptyCart) in that same step, and the step changes
\* no table row, no stock, no session and no transaction.
C2_EmptyCartCheckout ==
    [][\A s \in Sessions, u \in Users :
        (CheckoutInvoked(s, u) /\ CartOf(u) = {}) =>
            /\ resp' = [op |-> "checkout", msg |-> EmptyMsg, user |-> u]
            /\ UNCHANGED <<orders, orderItems, products, cartItems, sess, tx>>
    ]_vars

\* A user with an empty cart was answered EmptyCart while another user's cart
\* holds lines.
C2_Witness ==
    /\ resp.op = "checkout" /\ resp.msg = EmptyMsg
    /\ CartOf(resp.user) = {}
    /\ cartItems # {}
    /\ orders = {}

\* C3 (as claimed): the step that commits a checkout never takes a product's
\* stock from >= 0 to below 0.
C3_StockNeverNegative ==
    [][\A s \in Sessions, u \in Users :
        CheckoutCommitted(s, u) =>
            \A r \in products, r2 \in products' :
                (r.id = r2.id /\ r.stock >= 0) => r2.stock >= 0
    ]_vars

\* The writes of the checkout of session s, all present after the step: its
\* flushed Order, an OrderItem for every line it read, the stock it computed
\* for every product it loaded, and no cart row left for the user.
AllCheckoutWrites(s) ==
    LET u == sess[s].user
    IN  /\ tx.owner = s
        /\ orders' = orders \cup tx.orders
        /\ tx.orders # {}
        /\ \A o \in tx.orders :
             /\ o \notin orders
             /\ \A c \in sess[s].items :
                  \E i \in orderItems' \ orderItems :
                      /\ i.order_id = o.id
                      /\ i.product_id = c.product_id
                      /\ i.quantity = c.quantity
        /\ \A pr \in sess[s].prods :
             \E r2 \in products' :
                 /\ r2.id = pr.id
                 /\ r2.stock = pr.stock - SumQty({c \in sess[s].items : c.product_id = pr.id})
        /\ {c \in cartItems' : c.user_id = u} = {}

\* C4: every step of a checkout leaves the four tables as they are, except
\* the step that commits it, which makes all of its writes at once; a checkout
\* that ends in a failure (500) at any step, before or after its Order was
\* flushed, has changed no table.
C4_CheckoutAllOrNothing ==
    [][\A s \in Sessions :
        /\ (\E u \in Users : CheckoutInvoked(s, u)) => UNCHANGED tables
        /\ (sess[s].pc \in CheckoutPcs \cup {"ck_emit"} /\ sess'[s] # sess[s]) =>
              IF CheckoutCommitted(s, sess[s].user)
              THEN AllCheckoutWrites(s)
              ELSE UNCHANGED tables
        /\ \A o \in tx.orders : o \notin orders
    ]_vars

\* A checkout has failed and the cart, the orders and the stock are intact.
C4_Witness ==
    /\ resp.op = "checkout" /\ resp.msg = "500"
    /\ CartOf(resp.user) # {}
    /\ orders = {} /\ orderItems = {}
    /\ \A r \in products : r.stock = 1
    /\ tx = NoTx

\* C5 (as claimed): at most one CartItem row per (user id, product id).
C5_OneLinePerUserProduct ==
    \A c1 \in cartItems, c2 \in cartItems :
        (c1.user_id = c2.user_id /\ c1.product_id = c2.product_id) => c1 = c2

\* The step in which session s commits an add_to_cart.
AddCommitted(s) ==
    /\ sess[s].pc = "add"
    /\ sess'[s].pc = "idle"
    /\ resp' = [op |-> "add_to_cart", msg |-> "added to cart!", user |-> sess[s].user]

\* C6: with one request at a time, an add for (user, product) that commits
\* finds at most one line for the pair and leaves exactly one: a new line
\* with quantity 1 when there was none, else the same line with its quantity
\* raised by exactly 1; no other cart line changes.  So k adds in a row take
\* the line to quantity k.
C6_AddIncrementsByOne ==
    [][\A s \in Sessions : AddCommitted(s) =>
        LET u == sess[s].user
            p == (CHOOSE r \in sess[s].prods : TRUE).id
            Mine(c) == c.user_id = u /\ c.product_id = p
            before == {c \in cartItems : Mine(c)}
            after == {c \in cartItems' : Mine(c)}
        IN  /\ Cardinality(before) <= 1
            /\ Cardinality(after) = 1
            /\ \A c2 \in after :
                 IF before = {} THEN c2.quantity = 1
                 ELSE \A c \in before : c2.id = c.id /\ c2.quantity = c.quantity + 1
            /\ {c \in cartItems' : ~Mine(c)} = {c \in cartItems : ~Mine(c)}
    ]_vars

\* Three requests were served, all of them adds of one product by one user
\* (no setQuantity input is 3), and the line has quantity 3.
C6_Witness ==
    /\ request_counter = 3
    /\ resp.op = "add_to_cart" /\ resp.msg = "added to cart!"
    /\ \E c \in cartItems : cartItems = {c} /\ c.quantity = 3

\* C7: update_cart (setQuantity) and remove_from_cart (remove) aimed by user
\* u at an existing line of another user are answered 'Unauthorized access.'
\* and change no table, no session and no transaction.
C7_OwnershipEnforced ==
    [][\A s \in Sessions, u \in Users, c \in cartItems :
        c.user_id # u =>
          /\ \A q \in QtyInputs : update_cart(s, u, c.id, q) =>
                /\ resp' = [op |-> "update_cart", msg |-> "Unauthorized access.", user |-> u]
                /\ UNCHANGED <<tables, sess, tx>>
          /\ remove_from_cart(s, u, c.id) =>
                /\ resp' = [op |-> "remove_from_cart", msg |-> "Unauthorized access.",
                            user |-> u]
                /\ UNCHANGED <<tables, sess, tx>>
    ]_vars

\* A user was refused on another user's line, which is still there.
C7_Witness ==
    /\ resp.msg = "Unauthorized access."
    /\ resp.op \in {"update_cart", "remove_from_cart"}
    /\ \E c \in cartItems : c.user_id # resp.user

\* C8: in every step, every OrderItem row either stays exactly as it is
\* (same id, order, product, quantity and price, and no other row takes its
\* id) or goes away together with its owning Order, in an admin order delete.
C8_OrderItemsFrozen ==
    [][\A i \in orderItems :
        \/ /\ i \in orderItems'
           /\ \A i2 \in orderItems' : i2.id = i.id => i2 = i
        \/ /\ \A i2 \in orderItems' : i2.id # i.id
           /\ \E o \in orders : o.id = i.order_id
           /\ \A o2 \in orders' : o2.id # i.order_id
           /\ resp'.op = "admin_delete_order"
    ]_vars

\* A product's price was edited after an order for it was placed: the
\* OrderItem still carries the old price.
C8_Witness ==
    /\ resp.op = "admin_edit_product"
    /\ \E i \in orderItems, r \in products : r.id = i.product_id /\ r.price # i.price

RECURSIVE ItemsTotal(_)
ItemsTotal(rows) ==
    IF rows = {} THEN 0
    ELSE LET i == CHOOSE x \in rows : TRUE
         IN  i.price * i.quantity + ItemsTotal(rows \ {i})

\* C9: the Order a checkout commits has total_amount = the sum of price x
\* quantity over its OrderItems, and an Order for which that equality holds
\* keeps it through every step that does not change its total_amount.
C9_TotalMatchesItems ==
    [][/\ \A s \in Sessions, u \in Users : CheckoutCommitted(s, u) =>
             \A o \in orders' \ orders :
                 o.total_amount = ItemsTotal({i \in orderItems' : i.order_id = o.id})
       /\ \A o \in orders, o2 \in orders' :
             ( /\ o2.id = o.id
               /\ o2.total_amount = o.total_amount
               /\ o.total_amount = ItemsTotal(ItemsOf(o.id)) )
             => o2.total_amount = ItemsTotal({i \in orderItems' : i.order_id = o2.id})
    ]_vars

\* An order of a line with quantity 2 whose product was repriced afterwards
\* still has total_amount equal to the sum over its items.
C9_Witness ==
    \E o \in orders :
        /\ ItemsOf(o.id) # {}
        /\ o.total_amount = ItemsTotal(ItemsOf(o.id))
        /\ \E i \in ItemsOf(o.id), r \in products :
              r.id = i.product_id /\ r.price # i.price /\ i.quantity = 2

\* C10: with one request at a time, when the request that finished last is a
\* committed checkout of user u (so no add came after it), a checkout by u
\* received next is answered 'Your cart is empty.' (EmptyCart) and changes no
\* table: no second Order, no stock decrement.
C10_SecondCheckoutEmpty ==
    [][\A s \in Sessions, u \in Users :
        ( /\ resp = [op |-> "checkout", msg |-> PlacedMsg, user |-> u]
          /\ CheckoutInvoked(s, u) )
        => /\ resp' = [op |-> "checkout", msg |-> EmptyMsg, user |-> u]
           /\ UNCHANGED tables
    ]_vars

\* Three requests: an add, a checkout that committed and a second checkout
\* by the same user, answered EmptyCart; there is one order.
C10_Witness ==
    /\ request_counter = 3
    /\ resp.op = "checkout" /\ resp.msg = EmptyMsg
    /\ Cardinality(orders) = 1
    /\ \A o \in orders : o.user_id = resp.user
    /\ \A r \in products : r.stock >= 0

\* C11: a checkout that reached its commit ends in one of two ways, and the
\* cart as it is by then decides nothing: a failure (500) that changes no
\* table, or the commit, which adds a new Order of the user, an OrderItem for
\* every line the request read at its start, and writes for every product it
\* loaded that product's loaded stock less the quantity of the lines, also
\* when another checkout of the same user has cleared those lines meanwhile.
C11_CommitIgnoresClearedCart ==
    [][\A s \in Sessions :
        (sess[s].pc = "ck_commit" /\ sess'[s] # sess[s]) =>
            \/ /\ sess'[s].pc = "idle"
               /\ resp' = [op |-> "checkout", msg |-> "500", user |-> sess[s].user]
               /\ UNCHANGED tables
            \/ /\ CheckoutCommitted(s, sess[s].user)
               /\ \E o \in orders' \ orders :
                    /\ orders' = orders \cup {o}
                    /\ o.user_id = sess[s].user
                    /\ \A c \in sess[s].items :
                         \E i \in orderItems' \ orderItems :
                             /\ i.order_id = o.id
                             /\ i.product_id = c.product_id
                             /\ i.quantity = c.quantity
               /\ \A pr \in sess[s].prods :
                    \E r2 \in products' :
                        /\ r2.id = pr.id
                        /\ r2.stock =
                             pr.stock - SumQty({c \in sess[s].items : c.product_id = pr.id})
    ]_vars

\* Three requests, one add and two checkouts of the one cart line it made:
\* the cart is empty, the user has two orders, each with an item for the
\* line's product and quantity q, and the product's stock, 1 at the start, is
\* 1 - 2q.
C11_Witness ==
    /\ request_counter = 3
    /\ cartItems = {}
    /\ \A s \in Sessions : sess[s].pc = "idle"
    /\ \E u \in Users, r \in products, q \in 1..5 :
          /\ Cardinality({o \in orders : o.user_id = u}) = 2
          /\ Cardinality(orders) = 2
          /\ Cardinality(orderItems) = 2
          /\ \A o \in orders :
                \E i \in ItemsOf(o.id) : i.product_id = r.id /\ i.quantity = q
          /\ r.stock = 1 - 2 * q

\* C12: the orders_total counter changes only in the step a checkout takes
\* after its commit (its transaction is closed and its Order stored), by
\* exactly one, in the step that answers 'Order placed successfully!'; a
\* checkout answered 'Your cart is empty.' leaves it alone.  A checkout that
\* has committed takes exactly one more step, the emit or a failure (500),
\* and neither changes a table: the Order, its items, the stock and the
\* cleared cart stay.  So the counter never exceeds the orders committed and
\* answered.
C12_EmitAfterCommitOnce ==
    [][/\ orders_total' # orders_total =>
             \E s \in Sessions :
                 /\ sess[s].pc = "ck_emit"
                 /\ sess'[s].pc = "idle"
                 /\ orders_total' = orders_total + 1
                 /\ resp' = [op |-> "checkout", msg |-> PlacedMsg, user |-> sess[s].user]
       /\ \A s \in Sessions :
             /\ sess[s].pc = "ck_emit" =>
                   /\ tx.owner # s
                   /\ \E o \in orders : o.user_id = sess[s].user
             /\ (sess[s].pc = "ck_emit" /\ sess'[s] # sess[s]) =>
                   /\ sess'[s].pc = "idle"
                   /\ UNCHANGED tables
                   /\ \/ /\ orders_total' = orders_total + 1
                         /\ resp' = [op |-> "checkout", msg |-> PlacedMsg,
                                     user |-> sess[s].user]
                      \/ /\ orders_total' = orders_total
                         /\ resp' = [op |-> "checkout", msg |-> "500", user |-> sess[s].user]
             /\ (sess[s].pc # "ck_emit" /\ sess'[s].pc = "idle" /\ resp'.msg = PlacedMsg)
                   => sess'[s] = sess[s]
       /\ (resp'.msg = EmptyMsg /\ request_counter' # request_counter) =>
             orders_total' = orders_total
       /\ orders_total + Cardinality({s \in Sessions : sess[s].pc = "ck_emit"})
             <= Cardinality(orders)
    ]_vars

\* Four requests, two adds and two checkouts that both committed: the emit
\* of one was counted, the emit of the other failed (500), and both Orders,
\* their items and the cleared cart are there.
C12_Witness ==
    /\ request_counter = 4
    /\ orders_total = 1
    /\ resp = [op |-> "checkout", msg |-> "500", user |-> resp.user]
    /\ \A s \in Sessions : sess[s].pc = "idle"
    /\ Cardinality(orders) = 2
    /\ \A o \in orders : ItemsOf(o.id) # {} /\ o.user_id = resp.user
    /\ CartOf(resp.user) = {}

\* C13: every stored cart line has quantity >= 1, in every state that add,
\* update_cart (setQuantity), remove_from_cart and checkout reach, also with
\* requests in flight together; and an update_cart by the owner of an
\* existing line is answered 'Cart updated!' and, of all cart lines, only
\* deletes that line when the quantity given is <= 0 and only overwrites its
\* quantity with exactly the quantity given when it is >= 1.
C13_QuantityAtLeastOne ==
    [][/\ \A c \in cartItems : c.quantity >= 1
       /\ \A s \in Sessions, c \in cartItems, q \in QtyInputs :
             update_cart(s, c.user_id, c.id, q) =>
                 /\ resp' = [op |-> "update_cart", msg |-> "Cart updated!",
                             user |-> c.user_id]
                 /\ cartItems' = IF q <= 0
                                 THEN cartItems \ {c}
                                 ELSE (cartItems \ {c}) \cup {[c EXCEPT !.quantity = q]}
    ]_vars

\* Two requests, an add and an update_cart by the owner with a quantity <= 0
\* (QtyInputs has no other quantity below 5): the line is gone.
C13_Witness ==
    /\ request_counter = 2
    /\ resp.op = "update_cart" /\ resp.msg = "Cart updated!"
    /\ cartItems = {}
    /\ \A s \in Sessions : sess[s].pc = "idle"

\* C14: with one request at a time, an add of a product id that no product
\* has is answered 404 (NotFound) and changes no table, session or
\* transaction; an add of an existing product is accepted whatever its stock
\* and whatever the cart holds, and its commit is answered 'added to cart!',
\* leaves a line of the user for that product and changes no Product row.
C14_AddIgnoresStock ==
    [][\A s \in Sessions :
        /\ (request_counter' # request_counter
              /\ (sess'[s].pc = "add" \/ resp'.op = "add_to_cart")) =>
              \A u \in Users, p \in {r.id : r \in products} \cup {NextId(products)} :
                  add_to_cart_read(s, u, p) =>
                      IF \E r \in products : r.id = p
                      THEN /\ sess'[s].pc = "add"
                           /\ sess'[s].user = u
                           /\ UNCHANGED tables
                      ELSE /\ resp' = [op |-> "add_to_cart", msg |-> "404", user |-> u]
                           /\ UNCHANGED <<tables, sess, tx>>
        /\ (sess[s].pc = "add" /\ sess'[s] # sess[s] /\ add_to_cart_commit(s)) =>
              /\ resp' = [op |-> "add_to_cart", msg |-> "added to cart!",
                          user |-> sess[s].user]
              /\ products' = products
              /\ \E c \in cartItems' :
                    /\ c.user_id = sess[s].user
                    /\ \A r \in sess[s].prods : c.product_id = r.id
                    /\ c \notin cartItems
    ]_vars

\* Three requests (an add, its checkout and an add again): the product's
\* stock, 1 at the start, is 0 and the add has put it in the cart.
C14_Witness ==
    /\ request_counter = 3
    /\ resp.op = "add_to_cart" /\ resp.msg = "added to cart!"
    /\ \E c \in cartItems, r \in products :
          r.id = c.product_id /\ r.stock = 0 /\ c.user_id = resp.user

\* The sum over the products rows of price x the quantity of lines for it.
RECURSIVE LiveTotal(_, _)
LiveTotal(rows, lines) ==
    IF rows = {} THEN 0
    ELSE LET r == CHOOSE x \in rows : TRUE
         IN  r.price * SumQty({c \in lines : c.product_id = r.id})
             + LiveTotal(rows \ {r}, lines)

\* C15: with one request at a time, the step that commits a checkout gives
\* every new OrderItem the price its product has in the catalog at that
\* moment, whatever it was when the line was added (a cart line stores no
\* price), and the new Order the sum of quantity x that price over the
\* user's lines; and the cart page shows as total the sum of quantity x
\* current product price over the user's lines and changes no table, no
\* session, no transaction and no telemetry counter of orders.
C15_LivePriceAtCheckout ==
    [][\A s \in Sessions, u \in Users :
        /\ CheckoutCommitted(s, u) =>
              /\ \A i \in orderItems' \ orderItems :
                    \E r \in products : r.id = i.product_id /\ i.price = r.price
              /\ \A o \in orders' \ orders :
                    o.total_amount = LiveTotal(products, CartOf(u))
              /\ orderItems' # orderItems
        /\ cart(s, u) =>
              /\ resp' = [op |-> "cart", msg |-> "cart.html", user |-> u]
              /\ page'.total = LiveTotal(products, CartOf(u))
              /\ UNCHANGED <<tables, sess, tx, orders_total>>
    ]_vars

\* Three requests: an add of a catalog product (price 1 at the start), an
\* admin edit that set its price to 2, and the checkout: the OrderItem and
\* the Order's total carry 2.
C15_Witness ==
    /\ request_counter = 3
    /\ resp.op = "checkout" /\ resp.msg = PlacedMsg
    /\ \E o \in orders, i \in orderItems, r \in products :
          /\ i.order_id = o.id
          /\ i.product_id = r.id
          /\ r.id \in ProductIds
          /\ i.price = 2
          /\ r.price = 2
          /\ o.total_amount = 2 * i.quantity

\* C16: with one request at a time, admin_update_order_status (updateStatus)
\* on an existing order replaces that Order row by the same row with the
\* status given, whatever the status was ('delivered' included) and
\* changes no other Order, no OrderItem, no Product, no cart line, no session
\* and no transaction; and order_history (listForUser) shows the user's Order
\* rows exactly as they are stored, so the new status from the next request
\* on, and changes no table.
C16_UpdateStatusOnly ==
    [][\A s \in Sessions :
        /\ \A o \in orders, st \in StatusInputs :
              (resp'.op = "admin_update_order_status"
                 /\ admin_update_order_status(s, o.id, st)) =>
                  /\ orders' = (orders \ {o}) \cup {[o EXCEPT !.status = st]}
                  /\ \A o2 \in orders' : o2.id = o.id =>
                        /\ o2.status = st
                        /\ o2.total_amount = o.total_amount
                        /\ o2.user_id = o.user_id
                  /\ resp' = [op |-> "admin_update_order_status",
                              msg |-> "Order status updated!", user |-> Admin]
                  /\ UNCHANGED <<products, cartItems, orderItems, sess, tx>>
        /\ \A u \in Users :
              order_history(s, u) =>
                  /\ page'.orders = {o \in orders : o.user_id = u}
                  /\ UNCHANGED <<tables, sess, tx>>
    ]_vars

\* Three requests (an add, its checkout, which stores the Order as 'pending',
\* and the status update): the Order is 'delivered', with the total the
\* checkout gave it and its items.
C16_Witness ==
    /\ request_counter = 3
    /\ resp.op = "admin_update_order_status" /\ resp.msg = "Order status updated!"
    /\ \E o \in orders :
          /\ o.status = "delivered"
          /\ ItemsOf(o.id) # {}
          /\ o.total_amount = ItemsTotal(ItemsOf(o.id))

C18_NegativeProductRejected ==
    [][\A s \in Sessions, f \in ProductForms :
        LET Stores == \/ admin_add_product(s, f.price, f.stock)
                      \/ \E p \in {r.id : r \in products} :
                            admin_edit_product(s, p, f.price, f.stock)
        IN  Stores =>
              /\ (f.price < 0 \/ f.stock < 0) => products' = products
              /\ \A r \in products' \ products : r.price >= 0 /\ r.stock >= 0
    ]_vars

\* C19: with one request at a time, an admin_delete_product request,
\* answered with success, 404 or 500, leaves the OrderItem table exactly as it
\* was: every row stays, with its order, product id, quantity and price; and
\* a product that an OrderItem references is not deleted (the request fails,
\* 500), so the reference stays valid.
C19_ProductDeleteKeepsOrderItems ==
    [][\A s \in Sessions, p \in {r.id : r \in products} \cup {NextId(products)} :
        (resp'.op = "admin_delete_product" /\ admin_delete_product(s, p)) =>
            /\ orderItems' = orderItems
            /\ orders' = orders
            /\ (\E i \in orderItems : i.product_id = p) =>
                  /\ products' = products
                  /\ resp' = [op |-> "admin_delete_product", msg |-> "500", user |-> Admin]
    ]_vars

\* Three requests (an add, its checkout and the delete of the product
\* ordered): the delete failed, the OrderItem and its product are there.
C19_Witness ==
    /\ request_counter = 3
    /\ resp = [op |-> "admin_delete_product", msg |-> "500", user |-> Admin]
    /\ cartItems = {}
    /\ \E i \in orderItems, r \in products : r.id = i.product_id /\ i.price = r.price

\* C20: with one request at a time, admin_create_order (createManual) for a
\* user that exists adds exactly one Order row, of that user, with the total
\* and the status given and an id no OrderItem has as order_id, and changes
\* no other Order, no OrderItem, no Product and no cart line; for a user id
\* that no user has it is answered 'User not found.' and changes no table,
\* no session and no transaction.
C20_CreateManualOrder ==
    [][\A s \in Sessions, u \in UserInputs, t \in TotalInputs \ {NoTotal},
         st \in StatusInputs :
        (resp'.op = "admin_create_order" /\ admin_create_order(s, u, t, st)) =>
            IF u \in Users
            THEN /\ \E o \in orders' \ orders :
                      /\ orders' = orders \cup {o}
                      /\ o.user_id = u
                      /\ o.total_amount = t
                      /\ o.status = st
                      /\ \A o2 \in orders : o2.id # o.id
                      /\ {i \in orderItems' : i.order_id = o.id} = {}
                 /\ resp' = [op |-> "admin_create_order",
                             msg |-> "Order created successfully!", user |-> Admin]
                 /\ UNCHANGED <<products, cartItems, orderItems, sess, tx>>
            ELSE /\ resp' = [op |-> "admin_create_order", msg |-> "User not found.",
                             user |-> Admin]
                 /\ UNCHANGED <<tables, sess, tx>>
    ]_vars

\* Three requests (an add, its checkout and a manual order): next to the
\* checkout's order with its item there is an order with total 7 and no item.
C20_Witness ==
    /\ request_counter = 3
    /\ resp.op = "admin_create_order" /\ resp.msg = "Order created successfully!"
    /\ Cardinality(orders) = 2
    /\ \E o \in orders : ItemsOf(o.id) = {} /\ o.total_amount = 7
    /\ \E o \in orders : ItemsOf(o.id) # {}

\* C21 (as claimed): with customer requests only, in flight together or not,
\* every product's stock is the stock it started with (1) less the sum of
\* the quantities of the OrderItems for it.
C21_StockConservation ==
    \A r \in products :
        1 - r.stock = SumQty({i \in orderItems : i.product_id = r.id})

\* C22 (as claimed): every cart line that the commit of a checkout deletes
\* has an OrderItem of the new Order with its product and its quantity.
C22_ClearOnlyWhatWasOrdered ==
    [][\A s \in Sessions, u \in Users :
        CheckoutCommitted(s, u) =>
            \A c \in cartItems \ cartItems' :
                \E o \in orders' \ orders, i \in orderItems' \ orderItems :
                    /\ i.order_id = o.id
                    /\ i.product_id = c.product_id
                    /\ i.quantity = c.quantity
    ]_vars

\* The user whose request takes the step: the user of the request in flight
\* that moves, or else of the request answered in the step.
Actor ==
    IF \E s \in Sessions : sess[s].pc # "idle" /\ sess'[s] # sess[s]
    THEN sess[CHOOSE s \in Sessions : sess[s].pc # "idle" /\ sess'[s] # sess[s]].user
    ELSE resp'.user

\* The OrderItems of the Orders of user u, in the tables given.
OrderItemsOfUser(u, os, is) == {i \in is : \E o \in os : o.id = i.order_id /\ o.user_id = u}

\* C23 (as claimed): a step of a customer request that creates, changes or
\* deletes a cart line, an Order or an OrderItem of user b is a step of a
\* request of b.
C23_PerUserIsolation ==
    [][\A b \in Users :
        ( \/ {c \in cartItems' : c.user_id = b} # CartOf(b)
          \/ {o \in orders' : o.user_id = b} # {o \in orders : o.user_id = b}
          \/ OrderItemsOfUser(b, orders', orderItems') # OrderItemsOfUser(b, orders, orderItems) )
        => Actor = b
    ]_vars

====
